---- MODULE Spec2Model ----
(***************************************************************************)
(* Model of the elimination engine of the sath linear-algebra library:     *)
(* to_row_echelon, det, rank, the Gauss-Jordan kernel row_echelon_reduced  *)
(* and the checked / unchecked inversion entry points, for the 2x2, 3x3    *)
(* and 4x4 matrix types generated by __impl_mat_ops.                       *)
(*                                                                         *)
(* Scalars are exact rationals <<numerator, denominator>> in lowest terms  *)
(* with a positive denominator.  The library computes in f32/f64; every    *)
(* statement below is about the exact value of the arithmetic the code     *)
(* performs (no rounding).  A division by zero yields the single value     *)
(* NonFinite, which stands for the IEEE infinities and NaN.                *)
(*                                                                         *)
(* A vector is a function 0..n-1 -> scalar, a matrix a function            *)
(* 0..n-1 -> vector (row major, as the row1..rowN fields).                 *)
(***************************************************************************)
EXTENDS Integers, Sequences, FiniteSets, TLC

VARIABLES
    dim,        \* $dim of the matrix type in use: 2, 3 or 4
    orig,       \* the receiver matrix as it was when the entry point was called
    other,      \* the right-hand operand of a matrix product
    self,       \* the receiver (the working matrix of the running kernel)
    adjacent,   \* the adjacent matrix of row_echelon_reduced
    h,          \* to_row_echelon: pivot row cursor
    k,          \* to_row_echelon: pivot column cursor
    r,          \* row_echelon_reduced: loop variable of `for r in 0..$dim`
    lead,       \* row_echelon_reduced: lead column
    swaps,      \* history: number of swap_rows calls made by the running kernel
    op,         \* the entry point that was called ("none" before any call)
    pc,         \* "idle", "tre" (in the to_row_echelon loop), "rer" (in the
                \* row_echelon_reduced loop), "rer_end" (the kernel has returned to its
                \* caller), "done" (returned), "panic" (aborted)
    ret,        \* the value returned by the entry point
    arg         \* the other arguments of the call, a record (<<>> when none)

vars == <<dim, orig, other, self, adjacent, h, k, r, lead, swaps, op, pc, ret, arg>>

----------------------------------------------------------------------------
(* Bounds of the explored inputs.                                          *)

\* 2x2 inputs: every entry ranges over -MaxEntry2..MaxEntry2
MaxEntry2 == 2
\* 3x3 inputs: the entries of the first row range over -1..MaxTop;
\* 4x4 inputs: the entries of the first row are 0, 1 or MaxTop
MaxTop == 2
\* operands of a matrix product: the identity with one entry replaced by a
\* value of 0..MaxMul
MaxMul == 2

----------------------------------------------------------------------------
(* Scalars                                                                 *)

IAbs(x) == IF x < 0 THEN -x ELSE x

RECURSIVE Gcd(_, _)
Gcd(a, b) == IF b = 0 THEN a ELSE Gcd(b, a % b)

NonFinite == <<0, 0>>
IsFinite(a) == a[2] # 0

\* n/d in lowest terms, d > 0
Rat(n, d) == LET g == Gcd(IAbs(n), d) IN <<n \div g, d \div g>>
FromInt(x) == <<x, 1>>

ZERO == <<0, 1>>
ONE == <<1, 1>>
\* f32::EPSILON = 2^-23
EPSILON == <<1, 8388608>>

RNeg(a) == <<-a[1], a[2]>>
RAbs(a) == <<IAbs(a[1]), a[2]>>

RAdd(a, b) ==
    IF ~IsFinite(a) \/ ~IsFinite(b) THEN NonFinite
    ELSE LET g == Gcd(a[2], b[2])
         IN Rat(a[1] * (b[2] \div g) + b[1] * (a[2] \div g), (a[2] \div g) * b[2])

RSub(a, b) == RAdd(a, RNeg(b))

RMul(a, b) ==
    IF ~IsFinite(a) \/ ~IsFinite(b) THEN NonFinite
    ELSE IF a[1] = 0 \/ b[1] = 0 THEN ZERO
    ELSE LET g1 == Gcd(IAbs(a[1]), b[2])
             g2 == Gcd(IAbs(b[1]), a[2])
         IN <<(a[1] \div g1) * (b[1] \div g2), (a[2] \div g2) * (b[2] \div g1)>>

RDiv(a, b) ==
    IF ~IsFinite(a) \/ ~IsFinite(b) \/ b[1] = 0 THEN NonFinite
    ELSE RMul(a, IF b[1] > 0 THEN <<b[2], b[1]>> ELSE <<-b[2], -b[1]>>)

\* a < b; false when either side is not finite (as a comparison with NaN)
RLt(a, b) == IsFinite(a) /\ IsFinite(b) /\ a[1] * b[2] < b[1] * a[2]
RGt(a, b) == RLt(b, a)

----------------------------------------------------------------------------
(* Vectors                                                                 *)

Idx(n) == 0 .. (n - 1)

VLen(v) == Cardinality(DOMAIN v)

VAbs(v) == [i \in DOMAIN v |-> RAbs(v[i])]

VScale(v, f) == [i \in DOMAIN v |-> RMul(v[i], f)]

VDivS(v, f) == [i \in DOMAIN v |-> RDiv(v[i], f)]

VSub(v, w) == [i \in DOMAIN v |-> RSub(v[i], w[i])]

IsZeroVec(v) == \A i \in DOMAIN v : RLt(RAbs(v[i]), EPSILON)

RECURSIVE DotUpTo(_, _, _)
DotUpTo(v, w, n) == IF n = 0 THEN ZERO ELSE RAdd(RMul(v[n - 1], w[n - 1]), DotUpTo(v, w, n - 1))
Dot(v, w) == DotUpTo(v, w, VLen(v))

RECURSIVE ProductUpTo(_, _)
ProductUpTo(v, n) == IF n = 0 THEN ONE ELSE RMul(v[n - 1], ProductUpTo(v, n - 1))
Product(v) == ProductUpTo(v, VLen(v))

\* Iterator::max_by keeps the later element unless the earlier one is greater
RECURSIVE MaxIndexUpTo(_, _)
MaxIndexUpTo(v, n) ==
    IF n = 0 THEN 0
    ELSE LET b == MaxIndexUpTo(v, n - 1)
         IN IF RGt(v[b], v[n]) THEN b ELSE n
MaxIndex(v) == MaxIndexUpTo(v, VLen(v) - 1)

----------------------------------------------------------------------------
(* Matrices                                                                *)

Identity(n) == [i \in Idx(n) |-> [j \in Idx(n) |-> IF i = j THEN ONE ELSE ZERO]]

ZeroMat(n) == [i \in Idx(n) |-> [j \in Idx(n) |-> ZERO]]

\* the n-th column, n counted from 1
Column(m, n) == [i \in DOMAIN m |-> m[i][n - 1]]

Diagonal(m) == [i \in DOMAIN m |-> m[i][i]]

MatMul(a, b) == [i \in DOMAIN a |-> [j \in DOMAIN a |-> Dot(a[i], Column(b, j + 1))]]

\* the assertion of Index / IndexMut for a matrix of dimension n
IndexOk(idx, n) == idx >= 0 /\ idx <= n - 1

\* the assertion of swap_rows, rows counted from 1
SwapRowsOk(i, j, n) == i \in 1 .. n /\ j \in 1 .. n /\ i # j

\* a swap that loses row i: both rows end up holding row j
SwapRowsOneWay(m, i, j) == [m EXCEPT ![i - 1] = m[j - 1]]

SwapRows(m, i, j) == [m EXCEPT ![i - 1] = m[j - 1], ![j - 1] = m[i - 1]]

----------------------------------------------------------------------------
(* to_row_echelon                                                          *)

\* the candidate without the clamp `.max(h)`
IMaxNoClamp(m, hh, kk) == MaxIndex(VAbs(Column(m, kk + 1)))

IMax(m, hh, kk) ==
    LET c == MaxIndex(VAbs(Column(m, kk + 1)))
    IN IF c > hh THEN c ELSE hh

\* the column entry zeroed before the factor is read from it
EliminateRowZeroFirst(row, prow, kk) ==
    LET z == [row EXCEPT ![kk] = ZERO]
        f == RDiv(z[kk], prow[kk])
    IN [j \in DOMAIN row |->
          IF j <= kk THEN z[j] ELSE RSub(z[j], RMul(prow[j], f))]

\* the body of `for i in (h + 1)..$dim` on row i, prow being row h
EliminateRow(row, prow, kk) ==
    LET f == RDiv(row[kk], prow[kk])
    IN [j \in DOMAIN row |->
          IF j < kk THEN row[j]
          ELSE IF j = kk THEN ZERO
          ELSE RSub(row[j], RMul(prow[j], f))]

\* `if h != i_max { self.swap_rows(h + 1, i_max + 1); }` without the swap
TreNoSwap(m, hh, i_max) == m

\* `if h != i_max { self.swap_rows(h + 1, i_max + 1); }`
TreSwap(m, hh, i_max) == IF hh # i_max THEN SwapRows(m, hh + 1, i_max + 1) ELSE m

\* a rank-deficient step that advances the row cursor as well
TreSkipBoth(st) == [st EXCEPT !.h = st.h + 1, !.k = st.k + 1]

\* a rank-deficient step that advances the column cursor by two
TreSkipTwo(st) == [st EXCEPT !.k = st.k + 2]

\* the rank-deficient branch `k += 1`
TreSkip(st) == [st EXCEPT !.k = st.k + 1]

\* one iteration of `while h < $dim && k < $dim`, on the loop state
\* [m, h, k, swaps]
TreStep(st) ==
    LET m == st.m
        hh == st.h
        kk == st.k
        i_max == IMax(m, hh, kk)
    IN IF RLt(RAbs(m[i_max][kk]), EPSILON)
       THEN TreSkip(st)
       ELSE LET m1 == TreSwap(m, hh, i_max)
                m2 == [i \in DOMAIN m |->
                        IF i > hh THEN EliminateRow(m1[i], m1[hh], kk) ELSE m1[i]]
            IN [m |-> m2, h |-> hh + 1, k |-> kk + 1,
                swaps |-> IF hh # i_max THEN st.swaps + 1 ELSE st.swaps]

TreRunning(st) == st.h < VLen(st.m) /\ st.k < VLen(st.m)

RECURSIVE TreLoop(_)
TreLoop(st) == IF TreRunning(st) THEN TreLoop(TreStep(st)) ELSE st

TreRun(m) == TreLoop([m |-> m, h |-> 0, k |-> 0, swaps |-> 0])

ToRowEchelon(m) == TreRun(m).m

\* Matrix2::det is the closed form, Matrix3::det and Matrix4::det go through
\* to_row_echelon on a copy
Det(m) ==
    IF VLen(m) = 2
    THEN RSub(RMul(m[0][0], m[1][1]), RMul(m[0][1], m[1][0]))
    ELSE Product(Diagonal(ToRowEchelon(m)))

\* a count that starts at one (`let mut rank = 1`)
RankFromOne(m) ==
    LET copy == ToRowEchelon(m)
    IN 1 + Cardinality({d \in DOMAIN m : ~IsZeroVec(copy[d])})

RankOf(m) ==
    LET copy == ToRowEchelon(m)
    IN Cardinality({d \in DOMAIN m : ~IsZeroVec(copy[d])})

----------------------------------------------------------------------------
(* row_echelon_reduced and the inversion entry points                      *)

\* the search loop `while self[i][lead] == F::ZERO { ... }` started at row i:
\* out is "found" (the loop ended at [i, lead]), "return" (lead reached $dim)
\* or "panic" (an Index assertion failed)
\* the search without the wrap-around `if $dim == i { i = r; lead += 1; ... }`
RECURSIVE RerSearchNoWrap(_, _, _, _)
RerSearchNoWrap(m, rr, i, ld) ==
    LET n == VLen(m)
    IN IF ~IndexOk(i, n) \/ ~(ld >= 0 /\ ld <= n - 1)
       THEN [i |-> i, lead |-> ld, out |-> "panic"]
       ELSE IF m[i][ld] # ZERO
       THEN [i |-> i, lead |-> ld, out |-> "found"]
       ELSE RerSearchNoWrap(m, rr, i + 1, ld)

RECURSIVE RerSearch(_, _, _, _)
RerSearch(m, rr, i, ld) ==
    LET n == VLen(m)
    IN IF ~IndexOk(i, n) \/ ~(ld >= 0 /\ ld <= n - 1)
       THEN [i |-> i, lead |-> ld, out |-> "panic"]
       ELSE IF m[i][ld] # ZERO
       THEN [i |-> i, lead |-> ld, out |-> "found"]
       ELSE IF n = i + 1
            THEN IF n = ld + 1
                 THEN [i |-> rr, lead |-> ld + 1, out |-> "return"]
                 ELSE RerSearch(m, rr, rr, ld + 1)
            ELSE RerSearch(m, rr, i + 1, ld)

\* the number of evaluations of the condition of the search loop started at
\* [i, ld] (0 when an Index assertion fails)
RECURSIVE RerSearchSteps(_, _, _, _)
RerSearchSteps(m, rr, i, ld) ==
    LET n == VLen(m)
    IN IF ~IndexOk(i, n) \/ ~(ld >= 0 /\ ld <= n - 1) THEN 0
       ELSE IF m[i][ld] # ZERO THEN 1
       ELSE IF n = i + 1
            THEN IF n = ld + 1 THEN 1
                 ELSE 1 + RerSearchSteps(m, rr, rr, ld + 1)
            ELSE 1 + RerSearchSteps(m, rr, i + 1, ld)

\* the divisor read on the diagonal
RerPivotDiagonal(m1, rr, ld) == m1[rr][rr]

\* `let f = self[r][lead]`, read after the swap
RerPivot(m1, rr, ld) == m1[rr][ld]

\* the pivot row of the adjacent matrix left as it is
AdjacentRowUnscaled(a1, rr, f) == a1[rr]

\* `adjacent[r] /= f`
AdjacentRow(a1, rr, f) == VDivS(a1[rr], f)

\* the body of `for r in 0..$dim` for one value of r, on the kernel state
\* [m, adj, r, lead, swaps, out]; out is "run", "return" or "panic"
RerStep(st) ==
    LET m == st.m
        adj == st.adj
        rr == st.r
        n == VLen(m)
    IN IF n <= st.lead
       THEN [st EXCEPT !.out = "return"]
       ELSE LET s == RerSearch(m, rr, rr, st.lead)
            IN IF s.out # "found"
               THEN [st EXCEPT !.lead = s.lead, !.out = s.out]
               ELSE IF s.i # rr /\ ~SwapRowsOk(s.i + 1, rr + 1, n)
               THEN [st EXCEPT !.lead = s.lead, !.out = "panic"]
               ELSE LET m1 == IF s.i # rr THEN SwapRows(m, s.i + 1, rr + 1) ELSE m
                        a1 == IF s.i # rr THEN SwapRows(adj, s.i + 1, rr + 1) ELSE adj
                        f == RerPivot(m1, rr, s.lead)
                        mrow == VDivS(m1[rr], f)
                        arow == AdjacentRow(a1, rr, f)
                        m2 == [j \in DOMAIN m |->
                                 IF j # rr THEN VSub(m1[j], VScale(mrow, m1[j][s.lead]))
                                 ELSE mrow]
                        a2 == [j \in DOMAIN m |->
                                 IF j # rr THEN VSub(a1[j], VScale(arow, m1[j][s.lead]))
                                 ELSE arow]
                    IN [m |-> m2, adj |-> a2, r |-> rr + 1, lead |-> s.lead + 1,
                        swaps |-> IF s.i # rr THEN st.swaps + 1 ELSE st.swaps,
                        out |-> "run"]

RECURSIVE RerLoop(_)
RerLoop(st) ==
    IF st.out = "run" /\ st.r < VLen(st.m) THEN RerLoop(RerStep(st)) ELSE st

\* the kernel run to its end on working matrix m with adjacent matrix adj
RowEchelonReduced(m, adj) ==
    RerLoop([m |-> m, adj |-> adj, r |-> 0, lead |-> 0, swaps |-> 0, out |-> "run"])

\* the assertion of inverse / inversed
DetCheck(m) == RGt(RAbs(Det(m)), EPSILON)

\* the matrix det() has worked on when it returns: the copy reduced by
\* to_row_echelon (Matrix2::det reads the entries only)
DetWorked(m) == IF VLen(m) = 2 THEN m ELSE ToRowEchelon(m)

\* the receiver left holding the matrix the kernel has worked on
ReceiverWorked(m, worked) == worked

\* the receiver of a `&self` method whose kernel ran on a copy
\* (`let mut copy = *self`, `self.clone()`): it keeps its value m
ReceiverKept(m, worked) == m

\* the receiver left holding the matrix det() has reduced
ReceiverReducedByDet(m) == DetWorked(m)

\* the receiver of inverse / inversed when the assertion fails: det() has
\* worked on a copy and no row operation has been applied to the receiver
ReceiverAtAbort(m) == m

----------------------------------------------------------------------------
(* Inputs                                                                  *)

Dims == {2, 3, 4}

Ints(S) == {FromInt(x) : x \in S}

\* the first row of a 3x3 or 4x4 input
TopRows(n) ==
    IF n = 3 THEN [Idx(n) -> Ints((-1) .. MaxTop)]
    ELSE [Idx(n) -> Ints({0, 1, MaxTop})]

\* the other rows: 3x3, any row over {0, 1}; 4x4, the zero row and the rows
\* of the identity
LowRows(n) ==
    IF n = 3 THEN [Idx(n) -> {ZERO, ONE}]
    ELSE {ZeroMat(n)[0]} \cup {Identity(n)[i] : i \in Idx(n)}

Mats(n) ==
    IF n = 2 THEN [Idx(2) -> [Idx(2) -> Ints((-MaxEntry2) .. MaxEntry2)]]
    ELSE {[i \in Idx(n) |-> IF i = 0 THEN t ELSE l[i]] :
             t \in TopRows(n), l \in [1 .. (n - 1) -> LowRows(n)]}

\* the inputs whose entries are all 0 or 1
LiveMats(n) ==
    {m \in Mats(n) : \A i \in Idx(n) : \A j \in Idx(n) : m[i][j] \in {ZERO, ONE}}

\* a scalar below EPSILON: 3 * 2^-25 = 0.75 * EPSILON (a value of f32)
TINY == <<3, 33554432>>

\* 3x3 inputs whose second row was scaled by TINY (Vector3::scaled)
EpsMats == {[m EXCEPT ![1] = VScale(m[1], TINY)] : m \in Mats(3)}

\* operands of a product: Self::IDENTITY with one entry overwritten
MulMats(n) ==
    {[Identity(n) EXCEPT ![i][j] = FromInt(x)] :
        i \in Idx(n), j \in Idx(n), x \in 0 .. MaxMul}

----------------------------------------------------------------------------
(* The state machine                                                       *)

\* the state before any call, the receiver holding `orig`
Start ==
    /\ self = orig
    /\ adjacent = Identity(dim)
    /\ h = 0
    /\ k = 0
    /\ r = 0
    /\ lead = 0
    /\ swaps = 0
    /\ op = "none"
    /\ pc = "idle"
    /\ ret = ZERO
    /\ arg = <<>>

Init ==
    /\ dim \in Dims
    /\ orig \in Mats(dim)
    /\ other = Identity(dim)
    /\ Start

\* inputs with entries below EPSILON
InitEps ==
    /\ dim = 3
    /\ orig \in EpsMats
    /\ other = Identity(dim)
    /\ Start

\* inputs of the runs checked for termination: the state before any call,
\* where `ret`, which holds no value yet, is given a value of the type the
\* entry points of these runs return (a matrix)
InitLive ==
    /\ dim \in Dims
    /\ orig \in LiveMats(dim)
    /\ other = Identity(dim)
    /\ self = orig
    /\ adjacent = Identity(dim)
    /\ h = 0
    /\ k = 0
    /\ r = 0
    /\ lead = 0
    /\ swaps = 0
    /\ op = "none"
    /\ pc = "idle"
    /\ ret = Identity(dim)
    /\ arg = <<>>

\* two operands of a product
InitMul ==
    /\ dim \in {3, 4}
    /\ orig \in MulMats(dim)
    /\ other \in MulMats(dim)
    /\ Start

\* m.to_row_echelon(): entry, `let (mut h, mut k) = (0, 0)`
CallToRowEchelon ==
    /\ pc = "idle"
    /\ op' = "to_row_echelon"
    /\ pc' = "tre"
    /\ h' = 0
    /\ k' = 0
    /\ swaps' = 0
    /\ UNCHANGED <<dim, orig, other, self, adjacent, r, lead, ret, arg>>

\* one iteration of the loop of to_row_echelon
TreIter ==
    /\ pc = "tre"
    /\ h < dim /\ k < dim
    /\ LET st == TreStep([m |-> self, h |-> h, k |-> k, swaps |-> swaps])
       IN /\ self' = st.m
          /\ h' = st.h
          /\ k' = st.k
          /\ swaps' = st.swaps
    /\ UNCHANGED <<dim, orig, other, adjacent, r, lead, op, pc, ret, arg>>

\* the loop condition fails: to_row_echelon returns
TreExit ==
    /\ pc = "tre"
    /\ ~(h < dim /\ k < dim)
    /\ pc' = "done"
    /\ UNCHANGED <<dim, orig, other, self, adjacent, h, k, r, lead, swaps, op, ret, arg>>

\* m.det()
CallDet ==
    /\ pc = "idle"
    /\ op' = "det"
    /\ ret' = Det(self)
    /\ self' = ReceiverKept(self, DetWorked(self))
    /\ pc' = "done"
    /\ UNCHANGED <<dim, orig, other, adjacent, h, k, r, lead, swaps, arg>>

\* m.rank()
CallRank ==
    /\ pc = "idle"
    /\ op' = "rank"
    /\ ret' = RankOf(self)
    /\ self' = ReceiverKept(self, ToRowEchelon(self))
    /\ pc' = "done"
    /\ UNCHANGED <<dim, orig, other, adjacent, h, k, r, lead, swaps, arg>>

\* m.inverse() and m.inversed(): `assert!(self.det().abs() > F::EPSILON)`, then
\* row_echelon_reduced runs on the receiver (inverse) or on a clone of it
\* (inversed) with `i = Self::IDENTITY`, and `*self = i` or `i` is returned
CallInverseChecked ==
    /\ pc = "idle"
    /\ op' \in {"inverse", "inversed"}
    /\ IF DetCheck(self)
       THEN LET res == RowEchelonReduced(self, Identity(dim))
            IN IF res.out = "panic"
               THEN /\ pc' = "panic"
                    /\ self' = IF op' = "inverse" THEN res.m ELSE ReceiverKept(self, res.m)
                    /\ UNCHANGED ret
               ELSE /\ pc' = "done"
                    /\ self' = IF op' = "inverse" THEN res.adj ELSE ReceiverKept(self, res.m)
                    /\ ret' = res.adj
       ELSE /\ pc' = "panic"
            /\ self' = ReceiverAtAbort(self)
            /\ UNCHANGED ret
    /\ UNCHANGED <<dim, orig, other, adjacent, h, k, r, lead, swaps, arg>>

\* m.inverse_unchecked() and m.inversed_unchecked(): no assertion
CallInverseUnchecked ==
    /\ pc = "idle"
    /\ op' \in {"inverse_unchecked", "inversed_unchecked"}
    /\ pc' = "rer"
    /\ adjacent' = Identity(dim)
    /\ r' = 0
    /\ lead' = 0
    /\ swaps' = 0
    /\ UNCHANGED <<dim, orig, other, self, h, k, ret, arg>>

\* one iteration of `for r in 0..$dim` of row_echelon_reduced; an early
\* `return` leaves the kernel ("rer_end"), a failed assertion aborts
RerIter ==
    /\ pc = "rer"
    /\ r < dim
    /\ LET st == RerStep([m |-> self, adj |-> adjacent, r |-> r, lead |-> lead,
                          swaps |-> swaps, out |-> "run"])
       IN /\ self' = st.m
          /\ adjacent' = st.adj
          /\ r' = st.r
          /\ lead' = st.lead
          /\ swaps' = st.swaps
          /\ pc' = CASE st.out = "run" -> "rer"
                     [] st.out = "return" -> "rer_end"
                     [] OTHER -> "panic"
    /\ UNCHANGED <<dim, orig, other, h, k, op, ret, arg>>

\* the for loop is exhausted: row_echelon_reduced returns
RerExit ==
    /\ pc = "rer"
    /\ ~(r < dim)
    /\ pc' = "rer_end"
    /\ UNCHANGED <<dim, orig, other, self, adjacent, h, k, r, lead, swaps, op, ret, arg>>

\* back in inverse_unchecked / inversed_unchecked: `*self = i` (in place) or
\* `i` is returned and the clone is dropped, the receiver keeping its value
InverseReturn ==
    /\ pc = "rer_end"
    /\ pc' = "done"
    /\ ret' = adjacent
    /\ self' = IF op = "inverse_unchecked" THEN adjacent ELSE ReceiverKept(orig, self)
    /\ UNCHANGED <<dim, orig, other, adjacent, h, k, r, lead, swaps, op, arg>>

\* a * b
CallMul ==
    /\ pc = "idle"
    /\ op' = "mul"
    /\ ret' = MatMul(self, other)
    /\ pc' = "done"
    /\ UNCHANGED <<dim, orig, other, self, adjacent, h, k, r, lead, swaps, arg>>

\* (a * b).det(): det() called on the product just returned
CallDetOfProduct ==
    /\ pc = "done"
    /\ op = "mul"
    /\ op' = "mul_det"
    /\ ret' = Det(ret)
    /\ UNCHANGED <<dim, orig, other, self, adjacent, h, k, r, lead, swaps, pc, arg>>

Next ==
    \/ CallToRowEchelon
    \/ TreIter
    \/ TreExit
    \/ CallDet
    \/ CallRank
    \/ CallInverseChecked
    \/ CallInverseUnchecked
    \/ RerIter
    \/ RerExit
    \/ InverseReturn

Spec == Init /\ [][Next]_vars

SpecEps == InitEps /\ [][Next]_vars

\* the rows below the first of a 4x4 input of a repeated call: first entry 0,
\* the others 0 or 1
TwiceLowRows == {v \in [Idx(4) -> {ZERO, ONE}] : v[0] = ZERO}

\* inputs of a repeated call
TwiceMats(n) ==
    IF n = 4
    THEN {[i \in Idx(4) |-> IF i = 0 THEN t ELSE l[i]] :
             t \in TopRows(4), l \in [1 .. 3 -> TwiceLowRows]}
    ELSE Mats(n)

InitTwice ==
    /\ dim \in Dims
    /\ orig \in TwiceMats(dim)
    /\ other = Identity(dim)
    /\ Start

\* m.to_row_echelon() called again on the matrix the first call left: entry,
\* `let (mut h, mut k) = (0, 0)`; `arg` records the receiver of this call
CallToRowEchelonAgain ==
    /\ pc = "done"
    /\ op = "to_row_echelon"
    /\ op' = "to_row_echelon_again"
    /\ pc' = "tre"
    /\ h' = 0
    /\ k' = 0
    /\ swaps' = 0
    /\ arg' = [receiver |-> self]
    /\ UNCHANGED <<dim, orig, other, self, adjacent, r, lead, ret>>

NextTwice ==
    \/ CallToRowEchelon
    \/ TreIter
    \/ TreExit
    \/ CallToRowEchelonAgain

SpecTwice == InitTwice /\ [][NextTwice]_vars

\* a kernel that was called keeps running until it returns to its caller,
\* and the caller then returns: weak fairness of the steps of to_row_echelon
\* and of the steps of row_echelon_reduced and its caller, written with the
\* enabling conditions of these steps (pc = "tre", pc \in {"rer", "rer_end"})
TreRuns == []<>(pc # "tre") \/ []<><<TreIter \/ TreExit>>_<<pc, k>>

RerRuns ==
    []<>(pc \notin {"rer", "rer_end"}) \/ []<><<RerIter \/ RerExit \/ InverseReturn>>_<<pc, r>>

\* the entry points that run a kernel loop, and the steps of the loops
NextLive ==
    \/ CallToRowEchelon
    \/ TreIter
    \/ TreExit
    \/ CallInverseUnchecked
    \/ RerIter
    \/ RerExit
    \/ InverseReturn

SpecLive == InitLive /\ [][NextLive]_vars /\ TreRuns /\ RerRuns

NextMul ==
    \/ CallMul
    \/ CallDetOfProduct
    \/ CallDet

SpecMul == InitMul /\ [][NextMul]_vars

----------------------------------------------------------------------------
(* Row and column accessors, Index                                         *)

\* index arguments range over 0 .. N + MaxOver
MaxOver == 1
\* vector arguments: (c, 2c, ..) for c in 1 .. MaxVec
MaxVec == 2

\* the arms `1 => .., .., N => ..` of the match of row / column / set_row /
\* set_column; any other n panics
RowOk(n, d) == n \in 1 .. d

\* a row accessor that counts from 0
RowZeroBased(m, n) == m[IF n < VLen(m) THEN n ELSE 0]

\* row(n), n in 1..N
Row(m, n) == m[n - 1]

\* set_row(n, row), n in 1..N
SetRow(m, n, row) == [m EXCEPT ![n - 1] = row]

\* set_column(n, column), n in 1..N: Matrix2 stores column.x in both rows
SetColumn(m, n, column) ==
    [i \in DOMAIN m |->
        [m[i] EXCEPT ![n - 1] = IF VLen(m) = 2 THEN column[0] ELSE column[i]]]

\* m[idx] after `assert!(idx <= $dim - 1)`: the row at offset idx
MatIndex(m, idx) == m[idx]

\* matrices with pairwise distinct entries, the identity and the zero matrix
AccMats(n) ==
    {[i \in Idx(n) |-> [j \in Idx(n) |-> FromInt(n * i + j + 1)]], Identity(n), ZeroMat(n)}

AccVecs(n) == {[j \in Idx(n) |-> FromInt(-c * (j + 1))] : c \in 1 .. MaxVec}

ArgRange == 0 .. (dim + MaxOver)

InitAcc ==
    /\ dim \in Dims
    /\ orig \in AccMats(dim)
    /\ other = Identity(dim)
    /\ Start

\* m.row(n)
CallRow ==
    /\ pc = "idle"
    /\ op' = "row"
    /\ \E n \in ArgRange :
          /\ arg' = [n |-> n]
          /\ IF RowOk(n, dim)
             THEN pc' = "done" /\ ret' = Row(self, n)
             ELSE pc' = "panic" /\ UNCHANGED ret
    /\ UNCHANGED <<dim, orig, other, self, adjacent, h, k, r, lead, swaps>>

\* m.column(n)
CallColumn ==
    /\ pc = "idle"
    /\ op' = "column"
    /\ \E n \in ArgRange :
          /\ arg' = [n |-> n]
          /\ IF RowOk(n, dim)
             THEN pc' = "done" /\ ret' = Column(self, n)
             ELSE pc' = "panic" /\ UNCHANGED ret
    /\ UNCHANGED <<dim, orig, other, self, adjacent, h, k, r, lead, swaps>>

\* m.set_row(n, row)
CallSetRow ==
    /\ pc = "idle"
    /\ op' = "set_row"
    /\ \E n \in ArgRange : \E row \in AccVecs(dim) :
          /\ arg' = [n |-> n, v |-> row]
          /\ IF RowOk(n, dim)
             THEN pc' = "done" /\ self' = SetRow(self, n, row)
             ELSE pc' = "panic" /\ UNCHANGED self
    /\ UNCHANGED <<dim, orig, other, adjacent, h, k, r, lead, swaps, ret>>

\* m.set_column(n, column)
CallSetColumn ==
    /\ pc = "idle"
    /\ op' = "set_column"
    /\ \E n \in ArgRange : \E column \in AccVecs(dim) :
          /\ arg' = [n |-> n, v |-> column]
          /\ IF RowOk(n, dim)
             THEN pc' = "done" /\ self' = SetColumn(self, n, column)
             ELSE pc' = "panic" /\ UNCHANGED self
    /\ UNCHANGED <<dim, orig, other, adjacent, h, k, r, lead, swaps, ret>>

\* m[idx]
CallIndex ==
    /\ pc = "idle"
    /\ op' = "index"
    /\ \E idx \in ArgRange :
          /\ arg' = [n |-> idx]
          /\ IF IndexOk(idx, dim)
             THEN pc' = "done" /\ ret' = MatIndex(self, idx)
             ELSE pc' = "panic" /\ UNCHANGED ret
    /\ UNCHANGED <<dim, orig, other, self, adjacent, h, k, r, lead, swaps>>

\* m.column(n) after m.set_column(n, column) has returned, with the same n
CallColumnAfterSet ==
    /\ pc = "done"
    /\ op = "set_column"
    /\ op' = "set_column_column"
    /\ ret' = Column(self, arg.n)
    /\ UNCHANGED <<dim, orig, other, self, adjacent, h, k, r, lead, swaps, pc, arg>>

NextAcc ==
    \/ CallRow
    \/ CallColumn
    \/ CallSetRow
    \/ CallSetColumn
    \/ CallIndex
    \/ CallColumnAfterSet

SpecAcc == InitAcc /\ [][NextAcc]_vars

----------------------------------------------------------------------------
(* Scalars of the rotation code                                            *)
(*                                                                         *)
(* The rotation constructors and the quaternion code take sines, cosines   *)
(* and square roots.  Their scalars are modelled exactly as elements       *)
(* (a + b * sqrt(2)) / d of the field Q(sqrt 2), written <<a, b, d>> with   *)
(* integers a, b, d, d > 0 and gcd(a, b, d) = 1, so that the sine and       *)
(* cosine of the multiples of 45 degrees and of the angles of Pythagorean  *)
(* triangles are exact.  QNaN stands for the IEEE non-finite values and    *)
(* for a square root that has no value in the field.                       *)

QNaN == <<0, 0, 0>>
QIsFinite(x) == x[3] # 0

Q(a, b, d) ==
    IF d = 0 THEN QNaN
    ELSE LET g == Gcd(Gcd(IAbs(a), IAbs(b)), IAbs(d))
         IN IF d > 0 THEN <<a \div g, b \div g, d \div g>>
            ELSE <<(-a) \div g, (-b) \div g, (-d) \div g>>

QInt(n) == <<n, 0, 1>>
QZERO == QInt(0)
QONE == QInt(1)
QTWO == QInt(2)

QNeg(x) == <<-x[1], -x[2], x[3]>>

QAdd(x, y) ==
    IF ~QIsFinite(x) \/ ~QIsFinite(y) THEN QNaN
    ELSE Q(x[1] * y[3] + y[1] * x[3], x[2] * y[3] + y[2] * x[3], x[3] * y[3])

QSub(x, y) == QAdd(x, QNeg(y))

QMul(x, y) ==
    IF ~QIsFinite(x) \/ ~QIsFinite(y) THEN QNaN
    ELSE Q(x[1] * y[1] + 2 * x[2] * y[2], x[1] * y[2] + x[2] * y[1], x[3] * y[3])

\* x / y = x * conj(y) * d_y / (a_y^2 - 2 b_y^2)
QDiv(x, y) ==
    IF ~QIsFinite(x) \/ ~QIsFinite(y) \/ (y[1] = 0 /\ y[2] = 0) THEN QNaN
    ELSE LET n == y[1] * y[1] - 2 * y[2] * y[2]
             t == QMul(x, <<y[1], -y[2], 1>>)
         IN Q(t[1] * y[3], t[2] * y[3], t[3] * n)

\* -1, 0 or 1
QSign(x) ==
    IF x[1] = 0 /\ x[2] = 0 THEN 0
    ELSE IF x[1] >= 0 /\ x[2] >= 0 THEN 1
    ELSE IF x[1] <= 0 /\ x[2] <= 0 THEN -1
    ELSE IF x[1] > 0 THEN (IF x[1] * x[1] > 2 * x[2] * x[2] THEN 1 ELSE -1)
    ELSE (IF 2 * x[2] * x[2] > x[1] * x[1] THEN 1 ELSE -1)

QLt(x, y) == QIsFinite(x) /\ QIsFinite(y) /\ QSign(QSub(x, y)) < 0

QAbs(x) == IF QSign(x) < 0 THEN QNeg(x) ELSE x

ISqrt(n) == CHOOSE q \in 0 .. n : q * q <= n /\ (q + 1) * (q + 1) > n
IsSquare(n) == n >= 0 /\ ISqrt(n) * ISqrt(n) = n

\* Float::sqrt: of a rational square p^2 / q^2, or of 2 p^2 / q^2
Sqrt(x) ==
    IF ~QIsFinite(x) \/ QSign(x) < 0 \/ x[2] # 0 THEN QNaN
    ELSE IF IsSquare(x[1]) /\ IsSquare(x[3]) THEN Q(ISqrt(x[1]), 0, ISqrt(x[3]))
    ELSE LET hf == Rat(x[1], 2 * x[3])
         IN IF IsSquare(hf[1]) /\ IsSquare(hf[2]) THEN Q(0, ISqrt(hf[1]), ISqrt(hf[2]))
            ELSE QNaN

\* An angle in (-pi, pi] is the record [c, s] of its cosine and sine.
Cos(angle) == angle.c
Sin(angle) == angle.s

\* Float::acos: the angle of [0, pi] with cosine x
Acos(x) ==
    LET sn == Sqrt(QSub(QONE, QMul(x, x)))
    IN [c |-> IF QIsFinite(sn) THEN x ELSE QNaN, s |-> sn]

\* Float::atan2, `y.atan2(x)`: the angle of (-pi, pi] of the point (x, y),
\* 0 at the origin
Atan2(y, x) ==
    LET m == Sqrt(QAdd(QMul(x, x), QMul(y, y)))
    IN IF QIsFinite(x) /\ QIsFinite(y) /\ QSign(x) = 0 /\ QSign(y) = 0
       THEN [c |-> QONE, s |-> QZERO]
       ELSE [c |-> QDiv(x, m), s |-> QDiv(y, m)]

\* angle * F::TWO: the result may leave (-pi, pi], where cosine and sine no
\* longer determine it, so the record also keeps the angle that was doubled
Times2(angle) ==
    [c |-> QSub(QMul(angle.c, angle.c), QMul(angle.s, angle.s)),
     s |-> QMul(QTWO, QMul(angle.s, angle.c)),
     h |-> angle]

\* angle / 2: of a doubled angle, the angle that was doubled; of an angle of
\* (-pi, pi], the angle of (-pi/2, pi/2] whose double it is
HalfAngle(angle) ==
    IF "h" \in DOMAIN angle THEN angle.h
    ELSE LET ch == Sqrt(QDiv(QAdd(QONE, angle.c), QTWO))
             sh == Sqrt(QDiv(QSub(QONE, angle.c), QTWO))
         IN [c |-> ch, s |-> IF QSign(angle.s) < 0 THEN QNeg(sh) ELSE sh]

----------------------------------------------------------------------------
(* Vector3, Matrix3 and Quaternion over the scalars of the rotation code   *)

Vec3(x, y, z) == [i \in Idx(3) |-> IF i = 0 THEN x ELSE IF i = 1 THEN y ELSE z]

Mat3(row1, row2, row3) ==
    [i \in Idx(3) |-> IF i = 0 THEN row1 ELSE IF i = 1 THEN row2 ELSE row3]

QVNeg(v) == [i \in DOMAIN v |-> QNeg(v[i])]
QVScale(v, f) == [i \in DOMAIN v |-> QMul(v[i], f)]
QVDivS(v, f) == [i \in DOMAIN v |-> QDiv(v[i], f)]

QDot(v, w) ==
    QAdd(QMul(v[0], w[0]), QAdd(QMul(v[1], w[1]), QAdd(QMul(v[2], w[2]), QZERO)))

SqrMagnitude(v) == QDot(v, v)
Magnitude(v) == Sqrt(SqrMagnitude(v))
Normalized(v) == QVDivS(v, Magnitude(v))

QSum(v) == QAdd(v[0], QAdd(v[1], QAdd(v[2], QZERO)))
Trace(m) == QSum(Diagonal(m))

\* the product taken with the operands exchanged
QMatMulReversed(a, b) == [i \in Idx(3) |-> [j \in Idx(3) |-> QDot(b[i], Column(a, j + 1))]]

\* Mul for Matrix3
QMatMul(a, b) == [i \in Idx(3) |-> [j \in Idx(3) |-> QDot(a[i], Column(b, j + 1))]]

\* the product with the transposed matrix (columns in place of rows)
QMatVecTransposed(m, v) == [i \in Idx(3) |-> QDot(Column(m, i + 1), v)]

\* Mul<Vector3> for Matrix3
QMatVec(m, v) == [i \in Idx(3) |-> QDot(m[i], v)]

NewRotationX(angle) ==
    Mat3(Vec3(QONE, QZERO, QZERO),
         Vec3(QZERO, Cos(angle), QNeg(Sin(angle))),
         Vec3(QZERO, Sin(angle), Cos(angle)))

NewRotationY(angle) ==
    Mat3(Vec3(Cos(angle), QZERO, Sin(angle)),
         Vec3(QZERO, QONE, QZERO),
         Vec3(QNeg(Sin(angle)), QZERO, Cos(angle)))

NewRotationZ(angle) ==
    Mat3(Vec3(Cos(angle), QNeg(Sin(angle)), QZERO),
         Vec3(Sin(angle), Cos(angle), QZERO),
         Vec3(QZERO, QZERO, QONE))

NewRotationXy(x, y) == QMatMul(NewRotationY(y), NewRotationX(x))

NewRotationZx(z, x) == QMatMul(NewRotationX(x), NewRotationZ(z))

NewRotationZy(z, y) == QMatMul(NewRotationY(y), NewRotationZ(z))

NewRotationZxy(z, x, y) ==
    QMatMul(QMatMul(NewRotationY(y), NewRotationX(x)), NewRotationZ(z))

\* the axis without `.normalized()`
RotationAxisRaw(m) ==
    Vec3(QSub(m[2][1], m[1][2]), QSub(m[0][2], m[2][0]), QSub(m[1][0], m[0][1]))

RotationAxis(m) ==
    Normalized(Vec3(QSub(m[2][1], m[1][2]), QSub(m[0][2], m[2][0]), QSub(m[1][0], m[0][1])))

RotationAngle(m) == Acos(QDiv(QSub(Trace(m), QONE), QTWO))

ToAxisAngle(m) == <<RotationAxis(m), RotationAngle(m)>>

FromAxisAngle(axis, angle) ==
    LET x == axis[0]
        y == axis[1]
        z == axis[2]
        c == Cos(angle)
        sn == Sin(angle)
        t == QSub(QONE, Cos(angle))
    IN Mat3(Vec3(QAdd(c, QMul(QMul(x, x), t)),
                 QSub(QMul(QMul(x, y), t), QMul(z, sn)),
                 QAdd(QMul(QMul(x, z), t), QMul(y, sn))),
            Vec3(QAdd(QMul(QMul(y, x), t), QMul(z, sn)),
                 QAdd(c, QMul(QMul(y, y), t)),
                 QSub(QMul(QMul(y, z), t), QMul(x, sn))),
            Vec3(QSub(QMul(QMul(z, x), t), QMul(y, sn)),
                 QAdd(QMul(QMul(z, y), t), QMul(x, sn)),
                 QAdd(c, QMul(QMul(z, z), t))))

\* A quaternion is the record [scalar, vector].
NewAxisAngle(axis, angle) ==
    LET half == HalfAngle(angle)
    IN [scalar |-> Cos(half), vector |-> QVScale(axis, Sin(half))]

\* into_axis_angle with the arguments of atan2 exchanged
IntoAxisAngleSwapped(q) ==
    <<Normalized(q.vector), Times2(Atan2(q.scalar, Magnitude(q.vector)))>>

\* Quaternion::into_axis_angle: (vector.normalized(),
\* vector.magnitude().atan2(scalar) * F::TWO)
IntoAxisAngle(q) ==
    <<Normalized(q.vector), Times2(Atan2(Magnitude(q.vector), q.scalar))>>

FromVector(v) == [scalar |-> QZERO, vector |-> v]

Conjugate(q) == [q EXCEPT !.vector = QVNeg(q.vector)]

SqrNorm(q) == QAdd(QMul(q.scalar, q.scalar), SqrMagnitude(q.vector))

Norm(q) == Sqrt(SqrNorm(q))

QuatDivS(q, f) == [scalar |-> QDiv(q.scalar, f), vector |-> QVDivS(q.vector, f)]

Reciprocal(q) == QuatDivS(Conjugate(q), QMul(Norm(q), Norm(q)))

HamiltonProduct(a, b) ==
    [scalar |->
        QSub(QSub(QSub(QMul(a.scalar, b.scalar), QMul(a.vector[0], b.vector[0])),
                  QMul(a.vector[1], b.vector[1])),
             QMul(a.vector[2], b.vector[2])),
     vector |->
        Vec3(QSub(QAdd(QAdd(QMul(a.scalar, b.vector[0]), QMul(a.vector[0], b.scalar)),
                       QMul(a.vector[1], b.vector[2])),
                  QMul(a.vector[2], b.vector[1])),
             QAdd(QAdd(QSub(QMul(a.scalar, b.vector[1]), QMul(a.vector[0], b.vector[2])),
                       QMul(a.vector[1], b.scalar)),
                  QMul(a.vector[2], b.vector[0])),
             QAdd(QSub(QAdd(QMul(a.scalar, b.vector[2]), QMul(a.vector[0], b.vector[1])),
                       QMul(a.vector[1], b.vector[0])),
                  QMul(a.vector[2], b.scalar)))]

IntoMatrix3(q) ==
    LET w == q.scalar
        x == q.vector[0]
        y == q.vector[1]
        z == q.vector[2]
        two == QAdd(QONE, QONE)
        P(a, b) == QMul(QMul(two, a), b)
        Sq(a) == QMul(a, a)
    IN Mat3(Vec3(QSub(QSub(QAdd(Sq(w), Sq(x)), Sq(y)), Sq(z)),
                 QSub(P(x, y), P(w, z)),
                 QAdd(P(x, z), P(w, y))),
            Vec3(QAdd(P(x, y), P(w, z)),
                 QSub(QAdd(QSub(Sq(w), Sq(x)), Sq(y)), Sq(z)),
                 QSub(P(y, z), P(w, x))),
            Vec3(QSub(P(x, z), P(w, y)),
                 QAdd(P(y, z), P(w, x)),
                 QAdd(QSub(QSub(Sq(w), Sq(x)), Sq(y)), Sq(z))))

\* Vector3::rotated_by
RotatedBy(v, rotation) ==
    HamiltonProduct(HamiltonProduct(rotation, FromVector(v)), Reciprocal(rotation)).vector

----------------------------------------------------------------------------
(* Rotations: inputs and calls                                             *)

\* the number of angles, axes, vectors and quaternions taken from the lists
MaxAngles == 6
MaxAxes == 4
MaxVectors == 3
MaxQuats == 4

Angle(c, sn) == [c |-> c, s |-> sn]

\* 90, -90, 45, atan2(24, 7), 180, 0, atan2(4, 3), 135, -atan2(24, 7), -45 degrees
AngleList ==
    <<Angle(QZERO, QONE), Angle(QZERO, QInt(-1)), Angle(Q(0, 1, 2), Q(0, 1, 2)),
      Angle(Q(7, 0, 25), Q(24, 0, 25)), Angle(QInt(-1), QZERO), Angle(QONE, QZERO),
      Angle(Q(3, 0, 5), Q(4, 0, 5)), Angle(Q(0, -1, 2), Q(0, 1, 2)),
      Angle(Q(7, 0, 25), Q(-24, 0, 25)), Angle(Q(0, 1, 2), Q(0, -1, 2))>>

\* Vector3::X, Vector3::Z, (2, 2, 1) / 3, (1, 1, 0) / sqrt(2), Vector3::Y,
\* (-3, 0, 4) / 5, Vector3::XY (not a unit vector)
AxisList ==
    <<Vec3(QONE, QZERO, QZERO), Vec3(QZERO, QZERO, QONE),
      Vec3(Q(2, 0, 3), Q(2, 0, 3), Q(1, 0, 3)), Vec3(Q(0, 1, 2), Q(0, 1, 2), QZERO),
      Vec3(QZERO, QONE, QZERO), Vec3(Q(-3, 0, 5), QZERO, Q(4, 0, 5)),
      Vec3(QONE, QONE, QZERO)>>

VectorList ==
    <<Vec3(QONE, QZERO, QZERO), Vec3(QInt(1), QInt(2), QInt(3)), Vec3(QZERO, QONE, QZERO),
      Vec3(QInt(-1), QZERO, QInt(2)), Vec3(QZERO, QZERO, QONE)>>

\* Quaternion::new(1/2, (1/2, 1/2, 1/2)), new(3/5, (0, 4/5, 0)), new(1, (1, 0, 0))
\* (norm sqrt(2)), new(-3/5, (0, 4/5, 0)), new(0, (0, 0, 1)),
\* new(2/3, (1/3, 0, 2/3))
QuatList ==
    <<[scalar |-> Q(1, 0, 2), vector |-> Vec3(Q(1, 0, 2), Q(1, 0, 2), Q(1, 0, 2))],
      [scalar |-> Q(3, 0, 5), vector |-> Vec3(QZERO, Q(4, 0, 5), QZERO)],
      [scalar |-> QONE, vector |-> Vec3(QONE, QZERO, QZERO)],
      [scalar |-> Q(-3, 0, 5), vector |-> Vec3(QZERO, Q(4, 0, 5), QZERO)],
      [scalar |-> QZERO, vector |-> Vec3(QZERO, QZERO, QONE)],
      [scalar |-> Q(2, 0, 3), vector |-> Vec3(Q(1, 0, 3), QZERO, Q(2, 0, 3))]>>

Taken(list, n) == {list[i] : i \in 1 .. (IF n < Len(list) THEN n ELSE Len(list))}

Angles == Taken(AngleList, MaxAngles)
Axes == Taken(AxisList, MaxAxes)
Vectors == Taken(VectorList, MaxVectors)
Quats == Taken(QuatList, MaxQuats)

QIdentity3 == Mat3(Vec3(QONE, QZERO, QZERO), Vec3(QZERO, QONE, QZERO), Vec3(QZERO, QZERO, QONE))

InitRot ==
    /\ dim = 3
    /\ orig = QIdentity3
    /\ other = QIdentity3
    /\ self = QIdentity3
    /\ adjacent = QIdentity3
    /\ h = 0
    /\ k = 0
    /\ r = 0
    /\ lead = 0
    /\ swaps = 0
    /\ op = "none"
    /\ pc = "idle"
    /\ ret = QZERO
    /\ arg = <<>>

\* a constructor returns: the new value is held in self (and kept in orig)
Constructed(name, value, args) ==
    /\ pc = "idle"
    /\ op' = name
    /\ pc' = "done"
    /\ self' = value
    /\ orig' = value
    /\ arg' = args
    /\ UNCHANGED <<dim, other, adjacent, h, k, r, lead, swaps, ret>>

\* Matrix3::new_rotation_xy(x, y)
CallNewRotationXy ==
    \E x \in Angles : \E y \in Angles :
        Constructed("new_rotation_xy", NewRotationXy(x, y), [x |-> x, y |-> y])

\* Matrix3::new_rotation_zx(z, x)
CallNewRotationZx ==
    \E z \in Angles : \E x \in Angles :
        Constructed("new_rotation_zx", NewRotationZx(z, x), [z |-> z, x |-> x])

\* Matrix3::new_rotation_zy(z, y)
CallNewRotationZy ==
    \E z \in Angles : \E y \in Angles :
        Constructed("new_rotation_zy", NewRotationZy(z, y), [z |-> z, y |-> y])

\* Matrix3::new_rotation_zxy(z, x, y)
CallNewRotationZxy ==
    \E z \in Angles : \E x \in Angles : \E y \in Angles :
        Constructed("new_rotation_zxy", NewRotationZxy(z, x, y), [z |-> z, x |-> x, y |-> y])

\* Matrix3::from_axis_angle(axis, angle)
CallFromAxisAngle ==
    \E axis \in Axes : \E angle \in Angles :
        Constructed("from_axis_angle", FromAxisAngle(axis, angle),
                    [axis |-> axis, angle |-> angle])

\* m.to_axis_angle() on the matrix just built by from_axis_angle
CallToAxisAngle ==
    /\ pc = "done"
    /\ op = "from_axis_angle"
    /\ op' = "to_axis_angle"
    /\ ret' = ToAxisAngle(self)
    /\ UNCHANGED <<dim, orig, other, self, adjacent, h, k, r, lead, swaps, pc, arg>>

\* Matrix3::from_axis_angle(axis, angle) on the pair just returned by
\* to_axis_angle
CallFromAxisAngleBack ==
    /\ pc = "done"
    /\ op = "to_axis_angle"
    /\ op' = "from_axis_angle_back"
    /\ self' = FromAxisAngle(ret[1], ret[2])
    /\ UNCHANGED <<dim, orig, other, adjacent, h, k, r, lead, swaps, pc, ret, arg>>

\* Quaternion::new(scalar, vector)
CallQuaternionNew ==
    \E q \in Quats : Constructed("quaternion_new", q, [q |-> q])

\* Quaternion::new_axis_angle(axis, angle)
CallNewAxisAngle ==
    \E axis \in Axes : \E angle \in Angles :
        Constructed("new_axis_angle", NewAxisAngle(axis, angle),
                    [axis |-> axis, angle |-> angle])

FromQuaternion == {"quaternion_new", "new_axis_angle"}

MatrixBuilt ==
    {"new_rotation_xy", "new_rotation_zx", "new_rotation_zy", "new_rotation_zxy",
     "into_matrix3"}

\* q.into_matrix3() on the quaternion just built
CallIntoMatrix3 ==
    /\ pc = "done"
    /\ op \in FromQuaternion
    /\ op' = "into_matrix3"
    /\ self' = IntoMatrix3(self)
    /\ UNCHANGED <<dim, orig, other, adjacent, h, k, r, lead, swaps, pc, ret, arg>>

\* m * v on the matrix just built
CallMulVector ==
    /\ pc = "done"
    /\ op \in MatrixBuilt
    /\ \E v \in Vectors :
          /\ ret' = QMatVec(self, v)
          /\ arg' = [made |-> op, args |-> arg, v |-> v]
    /\ op' = "mul_vector"
    /\ UNCHANGED <<dim, orig, other, self, adjacent, h, k, r, lead, swaps, pc>>

\* v.rotated_by(q) with the quaternion just built
CallRotatedBy ==
    /\ pc = "done"
    /\ op \in FromQuaternion
    /\ \E v \in Vectors :
          /\ ret' = RotatedBy(v, self)
          /\ arg' = [made |-> op, args |-> arg, v |-> v]
    /\ op' = "rotated_by"
    /\ UNCHANGED <<dim, orig, other, self, adjacent, h, k, r, lead, swaps, pc>>

\* q.into_axis_angle() on the quaternion just built
CallIntoAxisAngle ==
    /\ pc = "done"
    /\ op \in FromQuaternion
    /\ op' = "into_axis_angle"
    /\ ret' = IntoAxisAngle(self)
    /\ UNCHANGED <<dim, orig, other, self, adjacent, h, k, r, lead, swaps, pc, arg>>

\* Quaternion::new_axis_angle(axis, angle) on the pair just returned by
\* into_axis_angle
CallNewAxisAngleBack ==
    /\ pc = "done"
    /\ op = "into_axis_angle"
    /\ op' = "new_axis_angle_back"
    /\ self' = NewAxisAngle(ret[1], ret[2])
    /\ UNCHANGED <<dim, orig, other, adjacent, h, k, r, lead, swaps, pc, ret, arg>>

NextRot ==
    \/ CallNewRotationXy
    \/ CallNewRotationZx
    \/ CallNewRotationZy
    \/ CallNewRotationZxy
    \/ CallFromAxisAngle
    \/ CallToAxisAngle
    \/ CallFromAxisAngleBack
    \/ CallQuaternionNew
    \/ CallNewAxisAngle
    \/ CallIntoMatrix3
    \/ CallMulVector
    \/ CallRotatedBy
    \/ CallIntoAxisAngle
    \/ CallNewAxisAngleBack

SpecRot == InitRot /\ [][NextRot]_vars

----------------------------------------------------------------------------
(* Affine3: a Matrix3 and a translation                                    *)

MaxScales == 2

QVAdd(v, w) == [i \in DOMAIN v |-> QAdd(v[i], w[i])]

\* Vector3::extend(w)
VecExtend(v, w) == [i \in Idx(4) |-> IF i < 3 THEN v[i] ELSE w]

QDot4(v, w) ==
    QAdd(QMul(v[0], w[0]),
         QAdd(QMul(v[1], w[1]), QAdd(QMul(v[2], w[2]), QAdd(QMul(v[3], w[3]), QZERO))))

\* Mul for Matrix4
QMat4Mul(a, b) == [i \in Idx(4) |-> [j \in Idx(4) |-> QDot4(a[i], Column(b, j + 1))]]

\* Mul<Vector4> for Matrix4
QMat4Vec(m, v) == [i \in Idx(4) |-> QDot4(m[i], v)]

\* Matrix3::extend(bottom, right, corner)
MatExtend(m, bottom, right, corner) ==
    [i \in Idx(4) |-> IF i < 3 THEN VecExtend(m[i], right[i]) ELSE VecExtend(bottom, corner)]

\* Matrix3::expand(): zero vectors at the bottom and on the right, 1 in the
\* corner
Expand(m) ==
    MatExtend(m, Vec3(QZERO, QZERO, QZERO), Vec3(QZERO, QZERO, QZERO), QONE)

\* Matrix4::new_translation: IDENTITY with the w of the first three rows set
NewTranslation(translation) ==
    [i \in Idx(4) |->
        [j \in Idx(4) |->
            IF j = 3 /\ i < 3 THEN translation[i] ELSE IF i = j THEN QONE ELSE QZERO]]

\* Matrix3::new_scale = Matrix3::new_diagonal
NewScale(scale) ==
    [i \in Idx(3) |-> [j \in Idx(3) |-> IF i = j THEN scale[i] ELSE QZERO]]

\* the linear part built with the factors exchanged
ScaleAfterRotation(scale, rotation, translation) ==
    [translation |-> translation, matrix |-> QMatMul(NewScale(scale), IntoMatrix3(rotation))]

\* Affine3::new_scale_rotation_translation
NewScaleRotationTranslation(scale, rotation, translation) ==
    [translation |-> translation, matrix |-> QMatMul(IntoMatrix3(rotation), NewScale(scale))]

\* Affine3::into_matrix4
AffineIntoMatrix4(a) == QMat4Mul(NewTranslation(a.translation), Expand(a.matrix))

\* Affine3::apply
Apply(a, vector) == QVAdd(QMatVec(a.matrix, vector), a.translation)

\* (1, 2, 3), (2, -1, 1/2), (-1, 1, 1), (0, 1, 2)
ScaleList ==
    <<Vec3(QInt(1), QInt(2), QInt(3)), Vec3(QInt(2), QInt(-1), Q(1, 0, 2)),
      Vec3(QInt(-1), QONE, QONE), Vec3(QZERO, QONE, QTWO)>>

Scales == Taken(ScaleList, MaxScales)

\* Affine3::new_scale_rotation_translation(scale, rotation, translation)
CallNewScaleRotationTranslation ==
    \E scale \in Scales : \E rotation \in Quats : \E translation \in Vectors :
        Constructed("new_scale_rotation_translation",
                    NewScaleRotationTranslation(scale, rotation, translation),
                    [scale |-> scale, rotation |-> rotation, translation |-> translation])

\* a.apply(vector) on the transform just built
CallApply ==
    /\ pc = "done"
    /\ op = "new_scale_rotation_translation"
    /\ \E v \in Vectors :
          /\ ret' = Apply(self, v)
          /\ arg' = [made |-> op, args |-> arg, v |-> v]
    /\ op' = "apply"
    /\ UNCHANGED <<dim, orig, other, self, adjacent, h, k, r, lead, swaps, pc>>

\* a.into_matrix4() on the transform just built
CallIntoMatrix4 ==
    /\ pc = "done"
    /\ op = "new_scale_rotation_translation"
    /\ op' = "into_matrix4"
    /\ self' = AffineIntoMatrix4(self)
    /\ UNCHANGED <<dim, orig, other, adjacent, h, k, r, lead, swaps, pc, ret, arg>>

\* m * vector.extend(1) on the Matrix4 just returned
CallMulVector4 ==
    /\ pc = "done"
    /\ op = "into_matrix4"
    /\ \E v \in Vectors :
          /\ ret' = QMat4Vec(self, VecExtend(v, QONE))
          /\ arg' = [made |-> op, args |-> arg, v |-> v]
    /\ op' = "mul_vector4"
    /\ UNCHANGED <<dim, orig, other, self, adjacent, h, k, r, lead, swaps, pc>>

NextAff ==
    \/ CallNewScaleRotationTranslation
    \/ CallApply
    \/ CallIntoMatrix4
    \/ CallMulVector4

SpecAff == InitRot /\ [][NextAff]_vars

----------------------------------------------------------------------------
(* Aabb3: a min and a max point                                            *)

\* coordinates of the points range over 0 .. MaxCoord
MaxCoord == 2

\* #[derive(PartialOrd)] on Vector3: partial_cmp compares x, then y, then z,
\* and the first pair that differs decides
VecPartialCmp(a, b) ==
    IF \A i \in DOMAIN a : a[i] = b[i] THEN "Equal"
    ELSE LET d == CHOOSE i \in DOMAIN a :
                      a[i] # b[i] /\ \A j \in DOMAIN a : j < i => a[j] = b[j]
         IN IF RLt(a[d], b[d]) THEN "Less" ELSE "Greater"

\* a > b, a >= b, a <= b of the derived PartialOrd
VecGt(a, b) == VecPartialCmp(a, b) = "Greater"
VecGe(a, b) == VecPartialCmp(a, b) \in {"Greater", "Equal"}
VecLe(a, b) == VecPartialCmp(a, b) \in {"Less", "Equal"}

\* Aabb3::is_right: `self.max > self.min`
IsRight(box) == VecGt(box.max, box.min)

\* Aabb3::contains: `point >= self.min && point <= self.max`
Contains(box, point) == VecGe(point, box.min) /\ VecLe(point, box.max)

Points == {[i \in Idx(3) |-> FromInt(c[i + 1])] : c \in (0 .. MaxCoord) \X (0 .. MaxCoord) \X (0 .. MaxCoord)}

\* Aabb3::from_min_max(min, max)
Boxes == {[min |-> a, max |-> b] : a \in Points, b \in Points}

InitBox ==
    /\ dim = 3
    /\ orig \in Boxes
    /\ other = Identity(3)
    /\ Start

\* b.is_right()
CallIsRight ==
    /\ pc = "idle"
    /\ op' = "is_right"
    /\ pc' = "done"
    /\ ret' = IsRight(self)
    /\ UNCHANGED <<dim, orig, other, self, adjacent, h, k, r, lead, swaps, arg>>

\* b.contains(point)
CallContains ==
    /\ pc = "idle"
    /\ op' = "contains"
    /\ pc' = "done"
    /\ \E point \in Points :
          /\ arg' = [point |-> point]
          /\ ret' = Contains(self, point)
    /\ UNCHANGED <<dim, orig, other, self, adjacent, h, k, r, lead, swaps>>

NextBox ==
    \/ CallIsRight
    \/ CallContains

SpecBox == InitBox /\ [][NextBox]_vars

----------------------------------------------------------------------------
(* Complex (complex.rs): a record of two scalars, real and imag            *)

MaxComplex == 2

\* self.real * self.real + self.imag * self.imag + F::ZERO
ComplexSqrMagnitude(c) ==
    RAdd(RAdd(RMul(c.real, c.real), RMul(c.imag, c.imag)), ZERO)

\* c.reciprocal()
ComplexReciprocal(c) ==
    LET sqr_mag == ComplexSqrMagnitude(c)
    IN  [real |-> RDiv(c.real, sqr_mag), imag |-> RDiv(RNeg(c.imag), sqr_mag)]

\* a * rhs: both parts are computed from the operands
ComplexMul(a, rhs) ==
    [real |-> RSub(RMul(a.real, rhs.real), RMul(a.imag, rhs.imag)),
     imag |-> RAdd(RMul(a.real, rhs.imag), RMul(a.imag, rhs.real))]

\* a *= rhs: two assignments in sequence, the second reads the real part the
\* first has just stored
ComplexMulAssign(a, rhs) ==
    LET real1 == RSub(RMul(a.real, rhs.real), RMul(a.imag, rhs.imag))
        imag1 == RAdd(RMul(real1, rhs.imag), RMul(a.imag, rhs.real))
    IN  [real |-> real1, imag |-> imag1]

\* a / rhs
ComplexDiv(a, rhs) == ComplexMul(a, ComplexReciprocal(rhs))

\* a /= rhs
ComplexDivAssign(a, rhs) == ComplexMulAssign(a, ComplexReciprocal(rhs))

Complexes ==
    {[real |-> FromInt(x), imag |-> FromInt(y)] :
        x \in (-MaxComplex) .. MaxComplex, y \in (-MaxComplex) .. MaxComplex}

InitComplex ==
    /\ dim = 2
    /\ orig \in Complexes
    /\ other = Identity(2)
    /\ Start

\* a * rhs
CallComplexMul ==
    /\ pc = "idle"
    /\ op' = "mul"
    /\ pc' = "done"
    /\ \E rhs \in Complexes :
          /\ arg' = [rhs |-> rhs]
          /\ ret' = ComplexMul(self, rhs)
    /\ UNCHANGED <<dim, orig, other, self, adjacent, h, k, r, lead, swaps>>

\* a *= rhs
CallComplexMulAssign ==
    /\ pc = "idle"
    /\ op' = "mul_assign"
    /\ pc' = "done"
    /\ \E rhs \in Complexes :
          /\ arg' = [rhs |-> rhs]
          /\ self' = ComplexMulAssign(self, rhs)
    /\ UNCHANGED <<dim, orig, other, adjacent, h, k, r, lead, swaps, ret>>

\* a / rhs
CallComplexDiv ==
    /\ pc = "idle"
    /\ op' = "div"
    /\ pc' = "done"
    /\ \E rhs \in Complexes :
          /\ arg' = [rhs |-> rhs]
          /\ ret' = ComplexDiv(self, rhs)
    /\ UNCHANGED <<dim, orig, other, self, adjacent, h, k, r, lead, swaps>>

\* a /= rhs
CallComplexDivAssign ==
    /\ pc = "idle"
    /\ op' = "div_assign"
    /\ pc' = "done"
    /\ \E rhs \in Complexes :
          /\ arg' = [rhs |-> rhs]
          /\ self' = ComplexDivAssign(self, rhs)
    /\ UNCHANGED <<dim, orig, other, adjacent, h, k, r, lead, swaps, ret>>

NextComplex ==
    \/ CallComplexMul
    \/ CallComplexMulAssign
    \/ CallComplexDiv
    \/ CallComplexDivAssign

SpecComplex == InitComplex /\ [][NextComplex]_vars

----------------------------------------------------------------------------
(* Reference notions the properties are stated against                     *)

\* m without row 0 and column c
Minor0(m, c) ==
    [i \in Idx(VLen(m) - 1) |->
        [j \in Idx(VLen(m) - 1) |-> m[i + 1][IF j < c THEN j ELSE j + 1]]]

\* the determinant by cofactor expansion along the first row (Leibniz)
RECURSIVE TrueDetUpTo(_, _)
RECURSIVE TrueDet(_)
TrueDetUpTo(m, c) ==
    IF c < 0 THEN ZERO
    ELSE LET t == RMul(m[0][c], TrueDet(Minor0(m, c)))
         IN RAdd(IF c % 2 = 0 THEN t ELSE RNeg(t), TrueDetUpTo(m, c - 1))
TrueDet(m) == IF VLen(m) = 1 THEN m[0][0] ELSE TrueDetUpTo(m, VLen(m) - 1)

\* strictly increasing selections of q indices out of 0..n-1
Selections(n, q) ==
    {s \in [Idx(q) -> Idx(n)] : \A i \in Idx(q) : \A j \in Idx(q) : i < j => s[i] < s[j]}

\* the rank: the largest order of a nonzero minor
HasMinor(m, q) ==
    \E rs \in Selections(VLen(m), q) : \E cs \in Selections(VLen(m), q) :
        TrueDet([i \in Idx(q) |-> [j \in Idx(q) |-> m[rs[i]][cs[j]]]]) # ZERO
TrueRank(m) ==
    IF \A q \in 1 .. VLen(m) : ~HasMinor(m, q) THEN 0
    ELSE CHOOSE q \in 1 .. VLen(m) :
            HasMinor(m, q) /\ \A q2 \in (q + 1) .. VLen(m) : ~HasMinor(m, q2)

Invertible(m) == RGt(RAbs(TrueDet(m)), EPSILON)

\* the column of the leading entry of a row (n for a row of zeros)
LeadCol(v) ==
    IF \A j \in DOMAIN v : v[j] = ZERO THEN VLen(v)
    ELSE CHOOSE j \in DOMAIN v : v[j] # ZERO /\ \A j2 \in DOMAIN v : j2 < j => v[j2] = ZERO

IsRowEchelon(m) ==
    /\ \A i \in 1 .. (VLen(m) - 1) :
          LeadCol(m[i]) = VLen(m) \/ LeadCol(m[i - 1]) < LeadCol(m[i])
    /\ \A i \in DOMAIN m : \A j \in DOMAIN m : j < i => m[i][j] = ZERO

Checked == {"inverse", "inversed"}
Unchecked == {"inverse_unchecked", "inversed_unchecked"}

\* a vector turned about the X, Y or Z axis by an angle (counter-clockwise
\* seen from the tip of the axis)
TurnX(v, angle) ==
    Vec3(v[0],
         QSub(QMul(v[1], angle.c), QMul(v[2], angle.s)),
         QAdd(QMul(v[1], angle.s), QMul(v[2], angle.c)))

TurnY(v, angle) ==
    Vec3(QAdd(QMul(v[0], angle.c), QMul(v[2], angle.s)),
         v[1],
         QSub(QMul(v[2], angle.c), QMul(v[0], angle.s)))

TurnZ(v, angle) ==
    Vec3(QSub(QMul(v[0], angle.c), QMul(v[1], angle.s)),
         QAdd(QMul(v[0], angle.s), QMul(v[1], angle.c)),
         v[2])

Right == Angle(QZERO, QONE)

IsUnitVector(v) == SqrMagnitude(v) = QONE
IsUnitQuaternion(q) == SqrNorm(q) = QONE

----------------------------------------------------------------------------
(* Properties                                                              *)

\* C1: checked inversion of an invertible matrix (true determinant of
\* magnitude above EPSILON) does not abort and returns X with M * X = Identity
C1_CheckedInverseCorrect ==
    (op \in Checked /\ Invertible(orig))
        => (pc = "done" /\ MatMul(orig, ret) = Identity(dim))

\* C2: at every iteration of to_row_echelon the pivot candidate i_max lies in
\* h..N-1 and holds the entry of largest absolute value of column k among the
\* rows h..N-1
C2_PartialPivoting ==
    (pc = "tre" /\ h < dim /\ k < dim)
        => LET i_max == IMax(self, h, k)
           IN /\ i_max \in h .. (dim - 1)
              /\ \A i \in h .. (dim - 1) :
                    ~RLt(RAbs(self[i_max][k]), RAbs(self[i][k]))

\* C3: after to_row_echelon the matrix is in row echelon form: rows of zeros
\* lie below the others, leading entries move strictly to the right, every
\* entry below the main diagonal is zero
C3_RowEchelonForm ==
    (pc = "done" /\ op = "to_row_echelon") => IsRowEchelon(self)

\* C4: for 3x3 and 4x4 matrices |det(M)| equals the absolute value of the
\* true determinant of M
C4_DetUpToSign ==
    (pc = "done" /\ op = "det" /\ dim \in {3, 4})
        => RAbs(ret) = RAbs(TrueDet(orig))

\* C5: rank(M) is the linear-algebra rank of M
C5_RankIsTrueRank ==
    (pc = "done" /\ op = "rank") => ret = TrueRank(orig)

\* C6: checked inversion aborts on every matrix whose true determinant is 0
C6_SingularAborts ==
    (op \in Checked /\ TrueDet(orig) = ZERO) => pc = "panic"

\* C7: on an invertible matrix the kernel started with adjacent = Identity
\* ends with the working matrix equal to Identity and the adjacent matrix X
\* with X * M = M * X = Identity, and the unchecked entry points return that X
C7_UncheckedInverseCorrect ==
    (op \in Unchecked /\ TrueDet(orig) # ZERO)
        => /\ pc # "panic"
           /\ pc = "rer_end"
                => /\ self = Identity(dim)
                   /\ MatMul(adjacent, orig) = Identity(dim)
                   /\ MatMul(orig, adjacent) = Identity(dim)
           /\ pc = "done"
                => /\ ret = adjacent
                   /\ MatMul(ret, orig) = Identity(dim)
                   /\ MatMul(orig, ret) = Identity(dim)
                   /\ (op = "inverse_unchecked" => self = ret)

C7_Witness ==
    /\ pc = "done"
    /\ op = "inverse_unchecked"
    /\ dim = 4
    /\ TrueDet(orig) # ZERO
    /\ swaps > 0
    /\ \E i \in Idx(dim) : \E j \in Idx(dim) : i # j /\ ret[i][j] # ZERO

\* C8: unchecked inversion never aborts, whatever the input: in the kernel
\* every row index and every lead index used is in 0..N-1 and swap_rows is
\* only called with two distinct rows of 1..N; the call returns
C8_UncheckedNeverAborts ==
    op \in Unchecked
        => /\ pc \in {"rer", "rer_end", "done"}
           /\ (pc = "rer" /\ r < dim)
                => RerStep([m |-> self, adj |-> adjacent, r |-> r, lead |-> lead,
                            swaps |-> swaps, out |-> "run"]).out # "panic"
           /\ (pc = "rer" /\ r < dim /\ lead < dim)
                => LET s == RerSearch(self, r, r, lead)
                   IN /\ s.out \in {"found", "return"}
                      /\ s.out = "found"
                           => /\ IndexOk(s.i, dim)
                              /\ IndexOk(s.lead, dim)
                              /\ (s.i # r => SwapRowsOk(s.i + 1, r + 1, dim))

C8_Witness ==
    /\ pc = "done"
    /\ op = "inversed_unchecked"
    /\ TrueDet(orig) = ZERO
    /\ orig # ZeroMat(dim)
    /\ swaps > 0

\* C9: det(A * B) = det(A) * det(B) for the library's det()
C9_DetMultiplicative ==
    op = "mul_det" => ret = RMul(Det(orig), Det(other))

\* C10: on a 3x3 or 4x4 matrix where to_row_echelon accepts a pivot in every
\* column, det() returns (-1)^s times the true determinant, s being the number
\* of row swaps; det of [[0,1,0],[1,0,0],[0,0,1]] is returned as +1
SwapExample ==
    [i \in Idx(3) |-> [j \in Idx(3) |->
        IF (i = 0 /\ j = 1) \/ (i = 1 /\ j = 0) \/ (i = 2 /\ j = 2) THEN ONE ELSE ZERO]]

C10_DetSignBySwaps ==
    (pc = "done" /\ op = "det" /\ dim \in {3, 4})
        => /\ TreRun(orig).h = dim
                => ret = IF TreRun(orig).swaps % 2 = 1
                         THEN RNeg(TrueDet(orig))
                         ELSE TrueDet(orig)
           /\ orig = SwapExample => ret = ONE

C10_Witness ==
    /\ pc = "done"
    /\ op = "det"
    /\ dim = 4
    /\ TreRun(orig).h = dim
    /\ TreRun(orig).swaps % 2 = 1
    /\ ret # ZERO
    /\ ret = RNeg(TrueDet(orig))

\* C11: whenever to_row_echelon accepts a pivot, the divisor self[h][k] of the
\* elimination factors is, after the swap, the accepted candidate: its
\* absolute value is not below EPSILON and every factor is finite; on
\* [[0,2],[1,1]] the rows are swapped before the division and the result is
\* [[1,1],[0,2]]
PivotExample ==
    [i \in Idx(2) |-> [j \in Idx(2) |->
        IF i = 0 /\ j = 0 THEN ZERO ELSE IF i = 0 THEN FromInt(2) ELSE ONE]]

PivotExampleResult ==
    [i \in Idx(2) |-> [j \in Idx(2) |->
        IF i = 1 /\ j = 0 THEN ZERO ELSE IF i = 1 THEN FromInt(2) ELSE ONE]]

C11_PivotNotBelowEpsilon ==
    /\ (pc = "tre" /\ h < dim /\ k < dim)
          => LET i_max == IMax(self, h, k)
                 m1 == TreSwap(self, h, i_max)
             IN ~RLt(RAbs(self[i_max][k]), EPSILON)
                  => /\ m1[h][k] = self[i_max][k]
                     /\ ~RLt(RAbs(m1[h][k]), EPSILON)
                     /\ m1[h][k] # ZERO
                     /\ \A i \in (h + 1) .. (dim - 1) : IsFinite(RDiv(m1[i][k], m1[h][k]))
    /\ (op = "to_row_echelon" /\ dim = 2 /\ orig = PivotExample)
          => /\ (pc = "tre" /\ h = 0 /\ k = 0)
                  => TreSwap(self, h, IMax(self, h, k)) = PivotExampleResult
             /\ (pc = "tre" /\ h > 0) => swaps = 1
             /\ pc = "done" => self = PivotExampleResult

C11_Witness ==
    /\ pc = "done"
    /\ op = "to_row_echelon"
    /\ dim = 2
    /\ orig = PivotExample
    /\ self = PivotExampleResult
    /\ swaps = 1

\* C12: rank(Identity) = N, rank(Zero) = 0 and 0 <= rank(M) <= N for every
\* matrix M of dimension N in {2, 3, 4}
C12_RankBounds ==
    (pc = "done" /\ op = "rank")
        => /\ ret \in 0 .. dim
           /\ orig = Identity(dim) => ret = dim
           /\ orig = ZeroMat(dim) => ret = 0

C12_Witness ==
    /\ pc = "done"
    /\ op = "rank"
    /\ dim = 4
    /\ orig = Identity(dim)
    /\ ret = dim

\* the pivot candidate of the current iteration of to_row_echelon
Candidate == self[IMax(self, h, k)][k]

\* C13: an iteration of to_row_echelon whose pivot candidate is below EPSILON
\* in absolute value increments k by one and leaves h and the matrix
\* unchanged (no swap, no elimination)
C13_RankDeficientStep ==
    [][(pc = "tre" /\ h < dim /\ k < dim /\ RLt(RAbs(Candidate), EPSILON))
          => /\ k' = k + 1
             /\ h' = h
             /\ self' = self
             /\ swaps' = swaps
             /\ pc' = "tre"]_vars

\* column 0 was accepted, then column 1 skipped on a nonzero candidate
C13_Witness ==
    /\ pc = "tre"
    /\ h = 1
    /\ k = 2
    /\ ~RLt(RAbs(self[0][0]), EPSILON)
    /\ LET c == self[IMax(self, 1, 1)][1]
       IN c # ZERO /\ RLt(RAbs(c), EPSILON)

\* C14: an iteration of to_row_echelon that accepts a pivot at (h, k) ends
\* with row h holding the former candidate row, every entry of column k below
\* row h exactly zero, every row above h unchanged, and h and k advanced by one
C14_PivotStep ==
    [][(pc = "tre" /\ h < dim /\ k < dim /\ ~RLt(RAbs(Candidate), EPSILON))
          => /\ self'[h] = self[IMax(self, h, k)]
             /\ \A i \in (h + 1) .. (dim - 1) : self'[i][k] = ZERO
             /\ \A i \in 0 .. (h - 1) : self'[i] = self[i]
             /\ h' = h + 1
             /\ k' = k + 1
             /\ pc' = "tre"]_vars

C14_Witness ==
    /\ pc = "tre"
    /\ dim = 4
    /\ h = 1
    /\ k = 1
    /\ swaps = 1
    /\ orig[0][0] = ZERO
    /\ \E i \in 1 .. (dim - 1) : self[i] # orig[i] /\ self[i] # orig[0]
    /\ \A i \in 1 .. (dim - 1) : self[i][0] = ZERO

\* C15: to_row_echelon terminates after at most N iterations: 0 <= h <= k <= N
\* always holds, every iteration increments k by one and the loop is left as
\* soon as h = N or k = N; row_echelon_reduced terminates on every input: its
\* search loop moves the pair (lead, i) forward, evaluates its condition at
\* most N * N times, and returns when lead reaches N
C15_Termination ==
    /\ [](pc = "tre" => (0 <= h /\ h <= k /\ k <= dim))
    /\ [][(pc = "tre" /\ h < dim /\ k < dim) => (k' = k + 1 /\ pc' = "tre")]_vars
    /\ [][(pc = "tre" /\ (h = dim \/ k = dim)) => pc' = "done"]_vars
    /\ []((pc = "rer" /\ r < dim /\ lead < dim)
            => LET s == RerSearch(self, r, r, lead)
               IN /\ RerSearchSteps(self, r, r, lead) \in 1 .. (dim * dim)
                  /\ s.lead > lead \/ (s.lead = lead /\ s.i >= r)
                  /\ s.out = "return" <=> s.lead = dim)
    /\ [][pc = "rer" => (r' = r + 1 \/ pc' = "rer_end")]_vars
    /\ (pc = "tre") ~> (pc = "done")
    /\ (pc = "rer") ~> (pc = "done")

\* to_row_echelon has returned after N iterations, some of them skips
C15_Witness ==
    /\ pc = "done"
    /\ op = "to_row_echelon"
    /\ dim = 4
    /\ k = dim
    /\ h < dim
    /\ h > 0

IsDiagonalMat(m) == \A i \in DOMAIN m : \A j \in DOMAIN m : i # j => m[i][j] = ZERO

\* the diagonal matrix with entries 1 / d_i
DiagInverse(m) ==
    [i \in DOMAIN m |-> [j \in DOMAIN m |-> IF i = j THEN RDiv(ONE, m[i][i]) ELSE ZERO]]

\* C16: checked inversion of a diagonal matrix with nonzero diagonal entries
\* d_i whose product exceeds EPSILON in absolute value returns the diagonal
\* matrix with entries 1 / d_i
C16_DiagonalInverse ==
    (/\ op \in Checked
     /\ IsDiagonalMat(orig)
     /\ \A i \in Idx(dim) : orig[i][i] # ZERO
     /\ RGt(RAbs(Product(Diagonal(orig))), EPSILON))
        => (pc = "done" /\ ret = DiagInverse(orig))

\* C17: row(n), column(n), set_row(n, .) and set_column(n, .) abort exactly
\* when n is outside 1..N (so for n = 0 and n = N + 1) and then leave the
\* matrix unchanged; for n in 1..N row(n) is m[n - 1]; m[idx] aborts exactly
\* when idx > N - 1
C17_AccessorsOneBased ==
    /\ op \in {"row", "column", "set_row", "set_column"}
          => /\ pc = "panic" <=> arg.n \notin 1 .. dim
             /\ arg.n \in {0, dim + 1} => pc = "panic"
             /\ pc = "panic" => self = orig
             /\ (op = "row" /\ pc = "done") => ret = MatIndex(orig, arg.n - 1)
    /\ op = "index"
          => /\ pc = "panic" <=> arg.n > dim - 1
             /\ pc = "done" => ret = orig[arg.n]

C17_Witness ==
    /\ op = "row"
    /\ pc = "done"
    /\ dim = 4
    /\ arg.n = dim
    /\ ret = orig[dim - 1]
    /\ ret # orig[0]

C19_QuaternionMatrixAgree ==
    /\ (op = "rotated_by" /\ IsUnitQuaternion(self))
          => /\ \A i \in Idx(3) : QIsFinite(ret[i])
             /\ ret = QMatVec(IntoMatrix3(self), arg.v)
    /\ (op = "mul_vector" /\ arg.made = "into_matrix3" /\ IsUnitQuaternion(orig))
          => /\ \A i \in Idx(3) : QIsFinite(ret[i])
             /\ ret = RotatedBy(arg.v, orig)
    /\ (/\ op = "mul_vector"
        /\ arg.made = "into_matrix3"
        /\ orig = NewAxisAngle(Vec3(QZERO, QZERO, QONE), Right)
        /\ arg.v = Vec3(QONE, QZERO, QZERO))
          => ret = Vec3(QZERO, QONE, QZERO)

C19_Witness ==
    /\ op = "mul_vector"
    /\ arg.made = "into_matrix3"
    /\ orig = NewAxisAngle(Vec3(QZERO, QZERO, QONE), Right)
    /\ orig.scalar = Q(0, 1, 2)
    /\ IsUnitQuaternion(orig)
    /\ arg.v = Vec3(QONE, QZERO, QZERO)
    /\ ret = Vec3(QZERO, QONE, QZERO)

\* the three antisymmetric differences of a 3x3 matrix
AntisymmetricPart(m) ==
    Vec3(QSub(m[2][1], m[1][2]), QSub(m[0][2], m[2][0]), QSub(m[1][0], m[0][1]))

\* a unit axis and an angle t with 0 < t < pi
NonDegenerate(axis, angle) == IsUnitVector(axis) /\ QSign(angle.s) > 0

\* C20: for M = from_axis_angle(a, t) with a unit axis a and 0 < t < pi (trace
\* neither 3 nor -1), to_axis_angle(M) returns a and t (the antisymmetric
\* differences are 2 sin(t) a, the trace is 1 + 2 cos(t)) and
\* from_axis_angle(to_axis_angle(M)) = M
C20_AxisAngleRoundTrip ==
    /\ (op = "to_axis_angle" /\ NonDegenerate(arg.axis, arg.angle))
          => /\ Trace(self) \notin {QInt(3), QInt(-1)}
             /\ Trace(self) = QAdd(QONE, QMul(QTWO, arg.angle.c))
             /\ AntisymmetricPart(self) = QVScale(arg.axis, QMul(QTWO, arg.angle.s))
             /\ ret[1] = arg.axis
             /\ ret[2] = arg.angle
    /\ (op = "from_axis_angle_back" /\ NonDegenerate(arg.axis, arg.angle))
          => /\ \A i \in Idx(3) : \A j \in Idx(3) : QIsFinite(self[i][j])
             /\ self = orig

C20_Witness ==
    /\ op = "from_axis_angle_back"
    /\ arg.axis = Vec3(Q(2, 0, 3), Q(2, 0, 3), Q(1, 0, 3))
    /\ arg.angle = Angle(Q(7, 0, 25), Q(24, 0, 25))
    /\ ret = <<arg.axis, arg.angle>>
    /\ self = orig
    /\ self # QIdentity3

\* a tolerance of 1e-3: values further apart than this are further apart than
\* the 1e-5 and 1e-10 of a round trip in 32-bit and 64-bit arithmetic
Tolerance == Q(1, 0, 1000)

QClose(x, y) == QIsFinite(x) /\ QIsFinite(y) /\ ~QLt(Tolerance, QAbs(QSub(x, y)))

\* the quaternions p and q agree within the tolerance, component by component
QuatClose(p, q) ==
    /\ QClose(p.scalar, q.scalar)
    /\ \A i \in Idx(3) : QClose(p.vector[i], q.vector[i])

QuatNeg(q) == [scalar |-> QNeg(q.scalar), vector |-> QVNeg(q.vector)]

IsFiniteQuaternion(q) == QIsFinite(q.scalar) /\ \A i \in Idx(3) : QIsFinite(q.vector[i])

HasVectorPart(q) == IsFiniteQuaternion(q) /\ \E i \in Idx(3) : QSign(q.vector[i]) # 0

\* the magnitude of the vector part and the norm are scalars of the model
\* (their squares are p^2 / q^2 or 2 p^2 / q^2)
ExactNorms(q) == QIsFinite(Magnitude(q.vector)) /\ QIsFinite(Norm(q))

\* C21 as stated: for every quaternion Q with non-zero vector part,
\* new_axis_angle applied to the pair returned by Q.into_axis_angle() gives Q
\* back, up to sign and within the tolerance
C21_AnyQuaternionRoundTrip ==
    (op = "new_axis_angle_back" /\ HasVectorPart(orig) /\ ExactNorms(orig))
        => (QuatClose(self, orig) \/ QuatClose(self, QuatNeg(orig)))

\* C21 (amended): for every quaternion Q of unit norm with non-zero vector
\* part, new_axis_angle applied to the pair returned by Q.into_axis_angle()
\* gives Q back; for any Q with non-zero vector part it gives Q / norm(Q)
C21_UnitQuaternionRoundTrip ==
    /\ (/\ op = "new_axis_angle_back"
        /\ HasVectorPart(orig)
        /\ ExactNorms(orig)
        /\ IsUnitQuaternion(orig))
          => self = orig
    /\ (op = "new_axis_angle_back" /\ HasVectorPart(orig) /\ ExactNorms(orig))
          => self = QuatDivS(orig, Norm(orig))

\* the unit quaternion (-3/5, (0, 4/5, 0)), whose angle 2 * atan2(4/5, -3/5)
\* lies beyond 180 degrees, has come back
C21_Witness ==
    /\ op = "new_axis_angle_back"
    /\ orig = [scalar |-> Q(-3, 0, 5), vector |-> Vec3(QZERO, Q(4, 0, 5), QZERO)]
    /\ ret[1] = Vec3(QZERO, QONE, QZERO)
    /\ QSign(ret[2].s) < 0
    /\ self = orig

\* the vector scaled component by component
ScaledBy(v, scale) == [i \in Idx(3) |-> QMul(scale[i], v[i])]

\* sum over j of m[i][j] * v[j], plus t[i]
LinearThenTranslate(m, v, t) ==
    [i \in Idx(3) |->
        QAdd(QAdd(QAdd(QMul(m[i][0], v[0]), QMul(m[i][1], v[1])), QMul(m[i][2], v[2])), t[i])]

\* C22: apply(v) = matrix * v + translation; the transform built by
\* new_scale_rotation_translation(s, q, t) maps v to R(q) * (diag(s) * v) + t
\* (scale, then rotation, then translation); into_matrix4() * (v, 1) =
\* (apply(v), 1)
C22_AffineOrder ==
    /\ op = "apply"
          => /\ ret = LinearThenTranslate(self.matrix, arg.v, self.translation)
             /\ self.translation = arg.args.translation
             /\ ret = QVAdd(QMatVec(IntoMatrix3(arg.args.rotation),
                                    ScaledBy(arg.v, arg.args.scale)),
                            arg.args.translation)
    /\ op = "mul_vector4" => ret = VecExtend(Apply(orig, arg.v), QONE)

\* apply has returned for scale (1, 2, 3), rotation (3/5, (0, 4/5, 0)) and
\* translation (1, 2, 3) on the vector (1, 2, 3), where rotating before
\* scaling gives another vector
C22_Witness ==
    /\ op = "apply"
    /\ arg.args.scale = Vec3(QInt(1), QInt(2), QInt(3))
    /\ arg.args.rotation = [scalar |-> Q(3, 0, 5), vector |-> Vec3(QZERO, Q(4, 0, 5), QZERO)]
    /\ arg.args.translation = Vec3(QInt(1), QInt(2), QInt(3))
    /\ arg.v = Vec3(QInt(1), QInt(2), QInt(3))
    /\ ret # QVAdd(ScaledBy(QMatVec(IntoMatrix3(arg.args.rotation), arg.v), arg.args.scale),
                   arg.args.translation)

\* C23: for Matrix2, Matrix3 and Matrix4, every n in 1..N and every vector c,
\* after m.set_column(n, c) the call m.column(n) returns exactly c and every
\* other column of m is unchanged
C23_SetColumnRoundTrip ==
    op = "set_column_column"
        => /\ ret = arg.v
           /\ \A j \in 1 .. dim : j # arg.n => Column(self, j) = Column(orig, j)

\* C24: contains(p) is true if and only if min.x <= p.x <= max.x and
\* min.y <= p.y <= max.y and min.z <= p.z <= max.z; is_right() is true if and
\* only if max exceeds min in every component
C24_ContainsComponentWise ==
    /\ op = "contains"
          => (ret <=> \A i \in Idx(3) :
                          /\ ~RLt(arg.point[i], self.min[i])
                          /\ ~RLt(self.max[i], arg.point[i]))
    /\ op = "is_right" => (ret <=> \A i \in Idx(3) : RLt(self.min[i], self.max[i]))

\* the matrix E of the row operations one iteration of row_echelon_reduced
\* makes on working matrix m: what the iteration leaves in an adjacent matrix
\* that was the identity
RowOperations(m, rr, ld) ==
    RerStep([m |-> m, adj |-> Identity(VLen(m)), r |-> rr, lead |-> ld,
             swaps |-> 0, out |-> "run"]).adj

\* C25: while row_echelon_reduced runs on M0 with an adjacent matrix that
\* started as the identity, and when it returns (early or not),
\* adjacent * M0 = working; every iteration applies the same row operations
\* to both matrices: working' = E * working and adjacent' = E * adjacent for
\* one matrix E; on every input, singular or not
C25_AugmentedInvariant ==
    /\ []((pc \in {"rer", "rer_end"}) => MatMul(adjacent, orig) = self)
    /\ [][(pc = "rer" /\ r < dim /\ pc' \in {"rer", "rer_end"})
            => LET E == RowOperations(self, r, lead)
               IN self' = MatMul(E, self) /\ adjacent' = MatMul(E, adjacent)]_vars

\* the kernel has swapped and eliminated on a singular input and both
\* matrices have changed
C25_Witness ==
    /\ pc = "rer"
    /\ dim = 3
    /\ r = 2
    /\ swaps > 0
    /\ TrueDet(orig) = ZERO
    /\ adjacent # Identity(dim)
    /\ self # orig
    /\ MatMul(adjacent, orig) = self

IsFiniteMat(m) == \A i \in DOMAIN m : \A j \in DOMAIN m : IsFinite(m[i][j])

\* C26: row_echelon_reduced never divides by zero: on every input, singular
\* ones included, the pivot value f = working[r][lead] by which the two rows
\* are divided is not zero, both matrices stay finite, and unchecked inversion
\* returns a finite matrix
C26_NoDivisionByZero ==
    /\ (pc = "rer" /\ r < dim /\ lead < dim)
          => LET s == RerSearch(self, r, r, lead)
                 m1 == IF s.i # r THEN SwapRows(self, s.i + 1, r + 1) ELSE self
             IN s.out = "found" => RerPivot(m1, r, s.lead) # ZERO
    /\ pc \in {"rer", "rer_end"} => (IsFiniteMat(self) /\ IsFiniteMat(adjacent))
    /\ op \in Unchecked => pc # "panic"
    /\ (op \in Unchecked /\ pc = "done") => IsFiniteMat(ret)

\* unchecked inversion of a singular 3x3 matrix that is not zero has returned
\* a finite matrix, after a division
C26_Witness ==
    /\ op = "inversed_unchecked"
    /\ pc = "done"
    /\ dim = 3
    /\ TrueDet(orig) = ZERO
    /\ orig # ZeroMat(dim)
    /\ ret # Identity(dim)
    /\ IsFiniteMat(ret)

\* the matrix inversed() / inversed_unchecked() returns on m when it returns:
\* the adjacent matrix of the kernel run on a clone of m
InversedValue(m) == RowEchelonReduced(m, Identity(VLen(m))).adj

Copying == {"inversed", "inversed_unchecked", "rank", "det"}

\* C27: after M.inverse() the value of M is what M.inversed() returns on the
\* original M, and both abort on the same inputs (those failing the
\* determinant assertion); likewise inverse_unchecked() and
\* inversed_unchecked(), which never abort; inversed(), inversed_unchecked(),
\* rank() and det() leave the receiver unchanged
C27_InPlaceAndCopyingAgree ==
    /\ (op \in {"inverse", "inverse_unchecked"} /\ pc = "done") => self = InversedValue(orig)
    /\ (op \in {"inversed", "inversed_unchecked"} /\ pc = "done") => ret = InversedValue(orig)
    /\ op \in Checked => (pc = "panic" <=> ~DetCheck(orig))
    /\ op \in Unchecked => pc # "panic"
    /\ (op \in Copying /\ pc \in {"done", "panic"}) => self = orig

\* inverse() has replaced a 3x3 receiver by its inverse
C27_Witness ==
    /\ op = "inverse"
    /\ pc = "done"
    /\ dim = 3
    /\ self # orig
    /\ self = InversedValue(orig)
    /\ MatMul(orig, self) = Identity(dim)
    /\ swaps = 0
    /\ orig[0][1] # ZERO

\* C28: whenever inverse() aborts because |det| <= EPSILON the receiver still
\* holds its original entries
C28_FailureAtomicity ==
    (op = "inverse" /\ pc = "panic") => (~DetCheck(orig) /\ self = orig)

\* inverse() has aborted on a singular 3x3 matrix that to_row_echelon would
\* change
C28_Witness ==
    /\ op = "inverse"
    /\ pc = "panic"
    /\ dim = 3
    /\ ~RGt(RAbs(Det(orig)), EPSILON)
    /\ ToRowEchelon(orig) # orig
    /\ self = orig

\* C29: compound assignment agrees with the binary operator for complex
\* numbers: after a *= b the receiver equals a * b computed from the original
\* a, in both parts, and after a /= b it equals a / b
C29_CompoundAgreesWithBinary ==
    /\ (pc = "done" /\ op = "mul_assign") => self = ComplexMul(orig, arg.rhs)
    /\ (pc = "done" /\ op = "div_assign") => self = ComplexDiv(orig, arg.rhs)

\* C30: to_row_echelon is idempotent: applying it to the matrix a first call
\* left changes no entry
C30_ToRowEchelonIdempotent ==
    (pc = "done" /\ op = "to_row_echelon_again") => self = arg.receiver

====
